---- MODULE Spec2Model ----
(***************************************************************************)
(* Model of the QSM Japan core: calculate_trade_costs                      *)
(* (spatial_processing.py) and invert_model (model_inversion.py).          *)
(*                                                                         *)
(* Floating-point values are modelled by a small extended-number domain:   *)
(*   <<"rat", n, d>>   the exact rational n/d (d > 0, reduced, n >= 0)      *)
(*   <<"exp", n, d>>   exp(n/d), n # 0 (result of np.exp)                   *)
(*   <<"pos", 0, 1>>   some finite positive float whose value is not kept  *)
(*   <<"huge", 0, 1>>  the largest finite float (nan_to_num's posinf)      *)
(*   <<"inf", 0, 1>>   +infinity                                           *)
(*   <<"nan", 0, 1>>   NaN                                                 *)
(* Arithmetic is IEEE arithmetic on the special values and exact on the    *)
(* rationals; anything else positive and finite is "pos".                  *)
(***************************************************************************)
EXTENDS Integers, Sequences, FiniteSets, TLC

VARIABLES
    distance_matrix,      \* calculate_trade_costs: the caller's distance table
    phi,                  \* calculate_trade_costs: trade cost parameter
    T,                    \* trade cost matrix [M |-> size, e |-> entries]
    final_gdf,            \* location table [n |-> rows, col |-> columns]
    years,                \* invert_model: list of years to process
    convergence_stats,    \* year -> [iterations, final_diff]
    pc,                   \* position in the program
    yi,                   \* index in years of the year being processed
    L, w,                 \* the year's normalized population and wage
    A, u,                 \* working iterates
    best_diff, best_A, best_u,
    diff, iter_count, no_improvement_count,
    passes,               \* history: loop bodies entered for the current year
    min_seen              \* history: smallest residual computed for the year and its pair

vars == <<distance_matrix, phi, T, final_gdf, years, convergence_stats, pc, yi,
          L, w, A, u, best_diff, best_A, best_u, diff, iter_count,
          no_improvement_count, passes, min_seen>>

tradeVars == <<distance_matrix, phi>>
loopVars == <<L, w, A, u, best_diff, best_A, best_u, diff, iter_count,
              no_improvement_count, passes, min_seen>>

(***************************************************************************)
(* Bounds of the model                                                     *)
(***************************************************************************)
NumLoc == 2          \* rows of the location table
MaxDist == 2         \* short distances are 0, 10, ..., 10 * MaxDist km

(***************************************************************************)
(* Extended numbers                                                        *)
(***************************************************************************)
RECURSIVE GCD(_, _)
GCD(a, b) == IF b = 0 THEN a ELSE GCD(b, a % b)

Rat(n, d) == LET g == GCD(n, d) IN <<"rat", n \div g, d \div g>>
NaN == <<"nan", 0, 1>>
PosInf == <<"inf", 0, 1>>
Huge == <<"huge", 0, 1>>
Pos == <<"pos", 0, 1>>
Zero == <<"rat", 0, 1>>
One == <<"rat", 1, 1>>

Kind(x) == x[1]
IsNaN(x) == Kind(x) = "nan"
IsRat(x) == Kind(x) = "rat"
IsZero(x) == x = Zero
\* finite and strictly positive
IsPosFinite(x) == \/ Kind(x) \in {"pos", "huge", "exp"}
                  \/ (IsRat(x) /\ x[2] > 0)
IsFinite(x) == IsRat(x) \/ IsPosFinite(x)

\* x < y on the rationals and on the values of exp
RatLess(x, y) == x[2] * y[3] < y[2] * x[3]

\* float addition (operands are never negative)
Add(x, y) ==
    IF IsNaN(x) \/ IsNaN(y) THEN NaN
    ELSE IF Kind(x) = "inf" \/ Kind(y) = "inf" THEN PosInf
    ELSE IF Kind(x) = "huge" /\ Kind(y) = "huge" THEN PosInf
    ELSE IF Kind(x) = "huge" \/ Kind(y) = "huge" THEN Huge
    ELSE IF IsRat(x) /\ IsRat(y) THEN Rat(x[2] * y[3] + y[2] * x[3], x[3] * y[3])
    ELSE IF IsZero(x) THEN y
    ELSE IF IsZero(y) THEN x
    ELSE Pos

\* float multiplication
Mul(x, y) ==
    IF IsNaN(x) \/ IsNaN(y) THEN NaN
    ELSE IF Kind(x) = "inf" \/ Kind(y) = "inf"
         THEN (IF IsZero(x) \/ IsZero(y) THEN NaN ELSE PosInf)
    ELSE IF IsZero(x) \/ IsZero(y) THEN Zero
    ELSE IF x = One THEN y
    ELSE IF y = One THEN x
    ELSE IF IsRat(x) /\ IsRat(y) THEN Rat(x[2] * y[2], x[3] * y[3])
    ELSE Pos

\* float division x / y (numpy: no exception, inf or nan on a zero divisor)
Div(x, y) ==
    IF IsNaN(x) \/ IsNaN(y) THEN NaN
    ELSE IF Kind(y) = "inf" THEN (IF Kind(x) = "inf" THEN NaN ELSE Zero)
    ELSE IF Kind(x) = "inf" THEN PosInf
    ELSE IF IsZero(y) THEN (IF IsZero(x) THEN NaN ELSE PosInf)
    ELSE IF IsZero(x) THEN Zero
    ELSE IF y = One THEN x
    ELSE IF IsRat(x) /\ IsRat(y) THEN Rat(x[2] * y[3], x[3] * y[2])
    ELSE IF Kind(x) = "huge" /\ IsRat(y) /\ y[2] < y[3] THEN PosInf
    ELSE IF Kind(x) = "huge" /\ Kind(y) = "huge" THEN One
    ELSE Pos

\* x ** (pn/pd), pn # 0, pd > 0
Pow(x, pn, pd) ==
    IF IsNaN(x) THEN NaN
    ELSE IF x = One THEN One
    ELSE IF IsZero(x) THEN (IF pn > 0 THEN Zero ELSE PosInf)
    ELSE IF Kind(x) = "inf" THEN (IF pn > 0 THEN PosInf ELSE Zero)
    ELSE IF Kind(x) = "exp" THEN <<"exp", x[2] * pn, x[3] * pd>>
    ELSE IF Kind(x) = "huge"
         THEN (IF pn >= pd THEN PosInf ELSE IF -pn >= pd THEN Zero ELSE Pos)
    ELSE Pos

\* np.clip(x, 1e-10, 1e10): NaN stays NaN, 1 stays 1, every other value
\* (0 and inf included) lands in [1e-10, 1e10]
Clip(x) ==
    IF IsNaN(x) THEN NaN
    ELSE IF x = One THEN One
    ELSE Pos

Range(s) == {s[i] : i \in 1..Len(s)}

\* the array <<f[1], ..., f[n]>>, every entry computed once
RECURSIVE Array(_, _)
Array(f, n) == IF n = 0 THEN <<>> ELSE Append(Array(f, n - 1), f[n])

RECURSIVE SumTo(_, _)
SumTo(s, k) == IF k = 0 THEN Zero ELSE Add(SumTo(s, k - 1), s[k])
\* np.sum of a vector
SumF(s) == SumTo(s, Len(s))

\* np.mean of a vector
MeanF(s) == Div(SumF(s), Rat(Len(s), 1))


(***************************************************************************)
(* spatial_processing.calculate_trade_costs                                *)
(***************************************************************************)
ExpClip == 700       \* np.clip(..., -700, 700)

Cells(m) == (1..m) \X (1..m)

\* np.clip(x, lo, hi) for integer bounds lo < hi on a non-negative value
ClipInt(x, lo, hi) ==
    IF IsNaN(x) THEN NaN
    ELSE IF Kind(x) = "inf" THEN Rat(hi, 1)
    ELSE IF x[2] > hi * x[3] THEN Rat(hi, 1)
    ELSE IF x[2] < lo * x[3] THEN Rat(lo, 1)
    ELSE x

\* np.exp on a finite argument
Exp(x) ==
    IF IsNaN(x) THEN NaN
    ELSE IF IsZero(x) THEN One
    ELSE <<"exp", x[2], x[3]>>

calculate_trade_costs_linear(dm, ph) ==
    [M |-> dm.M, e |-> [c \in Cells(dm.M) |-> Mul(dm.e[c], ph)]]
calculate_trade_costs_decay(dm, ph) ==
    [M |-> dm.M,
     e |-> [c \in Cells(dm.M) |->
              Pow(Exp(ClipInt(Mul(dm.e[c], ph), -ExpClip, ExpClip)), -1, 1)]]

\* distance_matrix_array = distance_matrix.to_numpy().astype(float)  (a copy)
\* distance_matrix_array *= phi
\* T = np.exp(np.clip(distance_matrix_array, -700, 700))
calculate_trade_costs(dm, ph) ==
    [M |-> dm.M,
     e |-> [c \in Cells(dm.M) |->
              Exp(ClipInt(Mul(dm.e[c], ph), -ExpClip, ExpClip))]]

\* the argument of exp behind a trade cost (1 = exp(0))
LogOf(t) == IF t = One THEN Zero ELSE <<"rat", t[2], t[3]>>
\* t1 < t2 for two finite trade costs (exp is strictly increasing)
TLess(t1, t2) == RatLess(LogOf(t1), LogOf(t2))


(***************************************************************************)
(* model_inversion.invert_model: parameters (lines 34-39, 124)             *)
(***************************************************************************)
sigma == 9             \* elasticity of substitution
max_iter == 1000       \* maximum number of iterations
patience == 50         \* "if no_improvement_count > 50"
DiffScale == 1000000   \* residuals are counted in units of 1e-6
tol == 1               \* convergence tolerance 1e-6, in residual units
AlphaScale == 100      \* learning rates are counted in units of 0.01
min_alpha == 1         \* minimum learning rate 0.01
initial_alpha == 10    \* initial learning rate 0.1

(***************************************************************************)
(* Residuals (diff, best_diff): a count of residual units, NaN or +inf     *)
(***************************************************************************)
DNum(d) == <<"num", d>>
DNaN == <<"nan", 0>>
DInf == <<"inf", 0>>

\* a < b as floats: false as soon as one side is NaN
DLess(a, b) ==
    IF a[1] = "nan" \/ b[1] = "nan" THEN FALSE
    ELSE IF a[1] = "inf" THEN FALSE
    ELSE IF b[1] = "inf" THEN TRUE
    ELSE a[2] < b[2]

(***************************************************************************)
(* Preprocessing of a year's columns (lines 48-65)                         *)
(***************************************************************************)
\* np.sum(np.isnan(x))
CountNaN(s) == Cardinality({i \in 1..Len(s) : IsNaN(s[i])})

NotNaN(x) == ~IsNaN(x)

\* np.nanmean(x): the mean of the entries that are not NaN (NaN if none)
nanmean(s) ==
    LET kept == SelectSeq(s, NotNaN)
    IN IF Len(kept) = 0 THEN NaN ELSE MeanF(kept)

\* np.nan_to_num(x, nan=val): NaN -> val, +inf -> largest finite float
nan_to_num(s, val) ==
    Array([i \in 1..Len(s) |->
              IF IsNaN(s[i]) THEN val
              ELSE IF Kind(s[i]) = "inf" THEN Huge
              ELSE s[i]], Len(s))

\* lines 52-61: both vectors are repaired, and only if one of them holds a NaN
FillMissing(Lraw, wraw) ==
    IF CountNaN(Lraw) > 0 \/ CountNaN(wraw) > 0
    THEN [L |-> nan_to_num(Lraw, nanmean(Lraw)),
          w |-> nan_to_num(wraw, nanmean(wraw))]
    ELSE [L |-> Lraw, w |-> wraw]

\* lines 64-65: x / np.mean(x)
MeanNormalize(s) == LET m == MeanF(s) IN Array([i \in 1..Len(s) |-> Div(s[i], m)], Len(s))

(***************************************************************************)
(* Vectors of the iteration: entries, their mean, and where they come from *)
(***************************************************************************)
Vec(v, m, src) == [v |-> v, mean |-> m, src |-> src]
None == Vec(<<>>, NaN, <<"None", 0>>)

\* np.ones(N)
Ones_carried(n) == IF A = None THEN Vec([i \in 1..n |-> One], One, <<"ones", 0>>) ELSE A
\* lines 73-74: np.ones(N)
Ones(n) == Vec([i \in 1..n |-> One], One, <<"ones", 0>>)

\* x / x
SelfDiv(x) == IF IsPosFinite(x) THEN One ELSE NaN

\* raw / np.mean(raw): the mean of the result is mean/mean
Renormalize(raw, src) ==
    LET m == MeanF(raw)
    IN Vec(Array([i \in 1..Len(raw) |->
                     IF Len(raw) = 1 THEN SelfDiv(raw[i]) ELSE Div(raw[i], m)], Len(raw)),
           SelfDiv(m), src)


(***************************************************************************)
(* One fixed-point update (lines 88-121)                                   *)
(***************************************************************************)
alpha_update_nofloor(k) == <<initial_alpha, 1 + k>>
\* line 88: max(min_alpha, initial_alpha / np.sqrt(1 + iter_count)), kept as
\* <<a, r>> for (a / AlphaScale) / sqrt(r)
alpha_update(k) ==
    IF initial_alpha * initial_alpha <= min_alpha * min_alpha * (1 + k)
    THEN <<min_alpha, 1>>
    ELSE <<initial_alpha, 1 + k>>

TAt_transposed(Tm, i, j) == IF Tm.M = 1 THEN Tm.e[<<1, 1>>] ELSE Tm.e[<<j, i>>]
\* T[i][j], a 1x1 matrix being broadcast by numpy
TAt(Tm, i, j) == IF Tm.M = 1 THEN Tm.e[<<1, 1>>] ELSE Tm.e[<<i, j>>]

\* line 99 raises ValueError when the shapes (M,M), (N,1), (N,N) do not broadcast
ShapeError(Tm, n) == ~(Tm.M = n \/ Tm.M = 1 \/ n = 1)

\* line 95: np.clip(T ** (1 - sigma), 1e-10, 1e10)
term1(Tm, i, j) == Clip(Pow(TAt(Tm, i, j), 1 - sigma, 1))
\* line 96: np.clip((w * np.ones(N)) ** (sigma - 1), 1e-10, 1e10)
term2(wv, i) == Clip(Pow(Mul(wv[i], One), sigma - 1, 1))
\* line 97: np.clip(np.ones(N)[:, None] * ((A / w) ** (sigma - 1)), 1e-10, 1e10)
term3(Av, wv, j) == Clip(Mul(One, Pow(Div(Av[j], wv[j]), sigma - 1, 1)))
\* line 99: np.clip(term1 * term2[:, None] * term3, 1e-10, 1e10)
combined_terms(Tm, wv, Av, i, j) ==
    Clip(Mul(Mul(term1(Tm, i, j), term2(wv, i)), term3(Av, wv, j)))

\* line 100: np.clip(np.mean(combined_terms, axis=1) ** (1 / (1 - sigma)), 1e-10, 1e10)
u_raw(Tm, wv, Av, n) ==
    Array([i \in 1..n |->
             Clip(Pow(MeanF(Array([j \in 1..n |-> combined_terms(Tm, wv, Av, i, j)], n)),
                      -1, sigma - 1))], n)
\* lines 100-101
u_new(Tm, wv, Av, n, k) == Renormalize(u_raw(Tm, wv, Av, n), <<"u_new", k>>)

\* line 104: np.clip((L * w ** (2 * sigma - 1) * u ** (sigma - 1)) ** (1 / (sigma - 1)), 1e-10, 1e10)
A_raw(Lv, wv, uv, n) ==
    Array([i \in 1..n |->
             Clip(Pow(Mul(Mul(Lv[i], Pow(wv[i], 2 * sigma - 1, 1)),
                          Pow(uv[i], sigma - 1, 1)),
                      1, sigma - 1))], n)
\* lines 104-105
A_new(Lv, wv, uv, n, k) == Renormalize(A_raw(Lv, wv, uv, n), <<"A_new", k>>)

\* line 108: np.linalg.norm(A - A_new) + np.linalg.norm(u - u_new).
\* NaN as soon as one entry is NaN, 0 when both pairs are known to be equal;
\* otherwise the value is not kept by the number domain and the residual is
\* one of: a value below every earlier residual of the year, the previous
\* residual again, a large residual, the tolerance.
AnyNaN(s) == \E i \in 1..Len(s) : IsNaN(s[i])
AllRat(s) == \A i \in 1..Len(s) : IsRat(s[i])
Residuals(Av, Anew, uv, unew, k, prev) ==
    IF AnyNaN(Av) \/ AnyNaN(Anew) \/ AnyNaN(uv) \/ AnyNaN(unew) THEN {DNaN}
    ELSE IF Av = Anew /\ uv = unew /\ AllRat(Av) /\ AllRat(uv) THEN {DNum(0)}
    ELSE {DNum(d) : d \in {DiffScale - 1 - k, 2 * DiffScale, tol}
                          \cup (IF prev[1] = "num" THEN {prev[2]} ELSE {})}

\* lines 120-121: alpha * new + (1 - alpha) * old, 0 < alpha < 1
AlphaOf(al) == IF al[1] * al[1] = AlphaScale * AlphaScale * al[2] THEN One ELSE Pos
OneMinus(al) == IF al[1] * al[1] = AlphaScale * AlphaScale * al[2] THEN Zero ELSE Pos
Lerp(al, xn, xo) ==
    IF IsRat(xn) /\ xn = xo THEN xn
    ELSE Add(Mul(AlphaOf(al), xn), Mul(OneMinus(al), xo))
Blend(al, new, old, src) ==
    Vec(Array([i \in 1..Len(old.v) |-> Lerp(al, new.v[i], old.v[i])], Len(old.v)),
        Lerp(al, new.mean, old.mean), src)

Improves_always(d, best) == TRUE
Improves_orequal(d, best) == DLess(d, best) \/ d = best
\* line 111: if diff < best_diff
Improves(d, best) == DLess(d, best)


(***************************************************************************)
(* The location table and the inputs of a run                              *)
(***************************************************************************)
DefaultYears == <<1975, 1980>>     \* the first years of the default list (line 29)
DefaultPhi == Rat(1, 100)          \* phi=0.01

Col_firstyear(name, year) == <<name, 1975>>
\* f'Population_{year}', f'Wage_{year}', f'A_{year}', f'u_{year}'
Col(name, year) == <<name, year>>
Columns(ys) == {"Population", "Wage", "A", "u"} \X Range(ys)

\* input columns of one year
Ramp(n) == [i \in 1..n |-> Rat(i, 1)]
Flat(n, x) == [i \in 1..n |-> x]
YearData(kind, n) ==
    CASE kind = "clean" -> [L |-> Ramp(n), w |-> Flat(n, Rat(2, 1))]
      [] kind = "dirty" -> [L |-> [Ramp(n) EXCEPT ![1] = NaN],
                            w |-> [i \in 1..n |-> Rat(i - 1, 1)]]
      [] kind = "void"  -> [L |-> Flat(n, NaN), w |-> Flat(n, Rat(2, 1))]
      [] kind = "infty" -> [L |-> [Ramp(n) EXCEPT ![n] = PosInf], w |-> Ramp(n)]

\* tables of two years; at most one of the two years has data on which the
\* loop runs past its first iteration
KindPairs == {<<"clean", "void">>, <<"infty", "dirty">>, <<"void", "infty">>}

Table(n, ys, kinds) ==
    [n |-> n,
     col |-> [c \in Columns(ys) |->
                LET y == CHOOSE i \in 1..Len(ys) : ys[i] = c[2]
                IN CASE c[1] = "Population" -> YearData(kinds[y], n).L
                     [] c[1] = "Wage" -> YearData(kinds[y], n).w
                     [] OTHER -> None]]

\* a distance matrix as calculate_distance_matrix builds it: zero diagonal
Distances(m, d) ==
    [M |-> m, e |-> [c \in Cells(m) |-> IF c[1] = c[2] THEN Zero ELSE Rat(d, 1)]]

\* a distance matrix with one missing entry, row 1, column 2
DistancesWithGap(m, d) == [Distances(m, d) EXCEPT !.e[<<1, 2>>] = NaN]

NoMatrix == [M |-> 0, e |-> [c \in Cells(0) |-> Zero]]
NoMin == [diff |-> DInf, A |-> None, u |-> None]

IdleLoop ==
    /\ L = <<>> /\ w = <<>>
    /\ A = None /\ u = None
    /\ best_diff = DInf /\ best_A = None /\ best_u = None
    /\ diff = DNum(0) /\ iter_count = 0 /\ no_improvement_count = 0
    /\ passes = 0 /\ min_seen = NoMin

\* the years argument: the default order, the reverse order, one year alone
YearLists == {DefaultYears, <<1980, 1975>>, <<1975>>, <<1980>>}

\* the calls of invert_model that are run: tables of NumLoc locations with a
\* T of the same size, of a larger size and of size 1, in the default order
\* of the years (other orders for two of the tables), a table of one
\* location with T = [[1]], and a T with a NaN entry
Calls ==
    {c \in [n : {NumLoc}, m : {NumLoc, NumLoc + 1, 1}, kinds : KindPairs, years : YearLists,
             gap : {FALSE}] :
        /\ (c.m = 1 => c.kinds = <<"void", "infty">>)
        /\ (c.years = <<1980, 1975>> => (c.m = NumLoc /\ c.kinds = <<"clean", "void">>))
        /\ (Len(c.years) = 1 => (c.m = NumLoc /\ c.kinds = <<"void", "infty">>))}
    \cup [n : {1}, m : {1}, kinds : {<<"clean", "clean">>}, years : {DefaultYears}, gap : {FALSE}]
    \cup [n : {NumLoc}, m : {NumLoc}, kinds : {<<"clean", "void">>}, years : {DefaultYears},
           gap : {TRUE}]

\* invert_model(final_gdf, T, years) is entered with T = calculate_trade_costs(D)
Init ==
    /\ \E c \in Calls :
         /\ final_gdf = Table(c.n, DefaultYears, c.kinds)
         /\ distance_matrix = IF c.gap THEN DistancesWithGap(c.m, 10) ELSE Distances(c.m, 10)
         /\ years = c.years
    /\ phi = DefaultPhi
    /\ T = calculate_trade_costs(distance_matrix, phi)
    /\ convergence_stats = [y \in Range(years) |-> [iterations |-> 0, final_diff |-> DNum(0)]]
    /\ pc = "for"
    /\ yi = 1
    /\ IdleLoop

(***************************************************************************)
(* invert_model, one action per step                                       *)
(***************************************************************************)
\* lines 44-61: take the next year, read its columns, fill the missing values
StartYear ==
    /\ pc = "for"
    /\ yi <= Len(years)
    /\ LET year == years[yi]
           filled == FillMissing(final_gdf.col[Col("Population", year)],
                                 final_gdf.col[Col("Wage", year)])
       IN /\ L' = filled.L
          /\ w' = filled.w
    /\ pc' = "normalize"
    /\ UNCHANGED <<tradeVars, T, final_gdf, years, convergence_stats, yi, A, u,
                   best_diff, best_A, best_u, diff, iter_count,
                   no_improvement_count, passes, min_seen>>

\* lines 63-84: normalize L and w, reset the iterates and the loop variables
PrepareLoop ==
    /\ pc = "normalize"
    /\ L' = MeanNormalize(L)
    /\ w' = MeanNormalize(w)
    /\ A' = Ones(final_gdf.n)
    /\ u' = Ones(final_gdf.n)
    /\ best_diff' = DInf
    /\ best_A' = None
    /\ best_u' = None
    /\ diff' = DNum(DiffScale)
    /\ iter_count' = 0
    /\ no_improvement_count' = 0
    /\ passes' = 0
    /\ min_seen' = NoMin
    /\ pc' = "while"
    /\ UNCHANGED <<tradeVars, T, final_gdf, years, convergence_stats, yi>>

LoopCond_nocap == DLess(DNum(tol), diff)
LoopCond_notol == iter_count < max_iter
\* line 86: while diff > tol and iter_count < max_iter
LoopCond == DLess(DNum(tol), diff) /\ iter_count < max_iter

T_after_update_inplace(Tm) ==
    [Tm EXCEPT !.e = [c \in DOMAIN Tm.e |-> Clip(Pow(Tm.e[c], 1 - sigma, 1))]]
\* lines 95-99: T is only read, "T ** (1 - sigma)" builds a new array
T_after_update(Tm) == Tm

\* lines 87-132, no exception: one pass of the loop body
Iterate ==
    /\ pc = "while"
    /\ LoopCond
    /\ ~ShapeError(T, final_gdf.n)
    /\ \E alpha \in {alpha_update(iter_count)},
          un \in {u_new(T, w, A.v, final_gdf.n, iter_count)},
          an \in {A_new(L, w, u.v, final_gdf.n, iter_count)} :
          \E d \in Residuals(A.v, an.v, u.v, un.v, iter_count, diff) :
            LET better == Improves(d, best_diff)
                nic == IF better THEN 0 ELSE no_improvement_count + 1
            IN /\ diff' = d
               /\ best_diff' = IF better THEN d ELSE best_diff
               /\ best_A' = IF better THEN an ELSE best_A
               /\ best_u' = IF better THEN un ELSE best_u
               /\ no_improvement_count' = nic
               /\ A' = Blend(alpha, an, A, <<"A", iter_count + 1>>)
               /\ u' = Blend(alpha, un, u, <<"u", iter_count + 1>>)
               /\ min_seen' = IF min_seen = NoMin \/ DLess(d, min_seen.diff)
                              THEN [diff |-> d, A |-> an, u |-> un]
                              ELSE min_seen
               /\ IF nic > patience
                  THEN pc' = "store" /\ iter_count' = iter_count
                  ELSE pc' = "while" /\ iter_count' = iter_count + 1
    /\ passes' = passes + 1
    /\ T' = T_after_update(T)
    /\ UNCHANGED <<tradeVars, final_gdf, years, convergence_stats, yi, L, w>>

AfterException_reraise == "raised"
\* lines 128-130: "except Exception" prints and breaks out of the loop
AfterException == "store"

\* lines 93-99 and 128-130: the update raises, the handler takes over
IterateError ==
    /\ pc = "while"
    /\ LoopCond
    /\ ShapeError(T, final_gdf.n)
    /\ pc' = AfterException
    /\ passes' = passes + 1
    /\ UNCHANGED <<tradeVars, T, final_gdf, years, convergence_stats, yi, L, w, A, u,
                   best_diff, best_A, best_u, diff, iter_count,
                   no_improvement_count, min_seen>>

\* line 86: the loop condition is false
ExitLoop ==
    /\ pc = "while"
    /\ ~LoopCond
    /\ pc' = "store"
    /\ UNCHANGED <<tradeVars, T, final_gdf, years, convergence_stats, yi, loopVars>>

WriteColumn_all(gdf, name, year, val) ==
    [gdf EXCEPT !.col = [c \in DOMAIN gdf.col |-> IF c[1] = name THEN val ELSE gdf.col[c]]]
\* lines 155-156: final_gdf[f'A_{year}'] = A, final_gdf[f'u_{year}'] = u
WriteColumn(gdf, name, year, val) == [gdf EXCEPT !.col[Col(name, year)] = val]

UseBest_never(bA, bu) == FALSE
\* line 135: if best_A is not None and best_u is not None
UseBest(bA, bu) == bA # None /\ bu # None

\* lines 134-156: pick the best solution, record the statistics, write the columns
StoreYear ==
    /\ pc = "store"
    /\ LET year == years[yi]
           use_best == UseBest(best_A, best_u)
           Afin == IF use_best THEN best_A ELSE A
           ufin == IF use_best THEN best_u ELSE u
           dfin == IF use_best THEN best_diff ELSE diff
       IN /\ A' = Afin
          /\ u' = ufin
          /\ diff' = dfin
          /\ convergence_stats' = [convergence_stats EXCEPT
                                     ![year] = [iterations |-> iter_count, final_diff |-> dfin]]
          /\ final_gdf' = WriteColumn(WriteColumn(final_gdf, "A", year, Afin), "u", year, ufin)
    /\ yi' = yi + 1
    /\ pc' = "for"
    /\ UNCHANGED <<tradeVars, T, years, L, w, best_diff, best_A, best_u, iter_count,
                   no_improvement_count, passes, min_seen>>

\* lines 158-178: the years are exhausted; summary and CSV files
Finish ==
    /\ pc = "for"
    /\ yi > Len(years)
    /\ pc' = "done"
    /\ UNCHANGED <<tradeVars, T, final_gdf, years, convergence_stats, yi, loopVars>>

Next == StartYear \/ PrepareLoop \/ Iterate \/ IterateError \/ ExitLoop \/ StoreYear \/ Finish

Spec == Init /\ [][Next]_vars


(***************************************************************************)
(* calculate_trade_costs on its own: any zero-diagonal distance matrix     *)
(***************************************************************************)
DistVals == {10 * k : k \in 0..MaxDist} \cup {70000, 80000}     \* km
PhiVals == {Rat(1, 100), Rat(2, 100), Rat(1, 10), Zero, Rat(-1, 100)}
OffDiagonal(m) == {c \in Cells(m) : c[1] # c[2]}

InitTrade ==
    /\ \E f \in [OffDiagonal(NumLoc) -> DistVals] :
         distance_matrix =
             [M |-> NumLoc,
              e |-> [c \in Cells(NumLoc) |-> IF c[1] = c[2] THEN Zero ELSE Rat(f[c], 1)]]
    /\ phi \in PhiVals
    /\ T = NoMatrix
    /\ final_gdf = [n |-> 0, col |-> [c \in {} |-> None]]
    /\ years = <<>>
    /\ convergence_stats = [y \in {} |-> 0]
    /\ pc = "trade"
    /\ yi = 1
    /\ IdleLoop

CallerMatrixAfter_view(dm, ph) ==
    [dm EXCEPT !.e = [c \in DOMAIN dm.e |-> Mul(dm.e[c], ph)]]
\* lines 181-185: astype(float) returns a new array, so "*= phi" works on the
\* copy and the caller's distance matrix keeps its contents
CallerMatrixAfter(dm, ph) == dm

\* T = calculate_trade_costs(distance_matrix, phi), called once or again
TradeCosts ==
    /\ pc \in {"trade", "trade_done"}
    /\ T' = calculate_trade_costs(distance_matrix, phi)
    /\ distance_matrix' = CallerMatrixAfter(distance_matrix, phi)
    /\ pc' = "trade_done"
    /\ UNCHANGED <<phi, final_gdf, years, convergence_stats, yi, loopVars>>

NextTrade == TradeCosts

SpecTrade == InitTrade /\ [][NextTrade]_vars

(***************************************************************************)
(* Properties                                                              *)
(***************************************************************************)
\* the year whose result has just been stored, and what was stored for it
JustStored == pc \in {"for", "done"} /\ yi > 1
StoredA == final_gdf.col[Col("A", years[yi - 1])]
Storedu == final_gdf.col[Col("u", years[yi - 1])]
StoredStats == convergence_stats[years[yi - 1]]
Written(i) ==
    /\ final_gdf.col[Col("A", years[i])] # None
    /\ final_gdf.col[Col("u", years[i])] # None
    /\ Len(final_gdf.col[Col("A", years[i])].v) = final_gdf.n
    /\ Len(final_gdf.col[Col("u", years[i])].v) = final_gdf.n
NothingWritten ==
    \A c \in DOMAIN final_gdf.col : c[1] \in {"A", "u"} => final_gdf.col[c] = None
InitialStats == [iterations |-> 0, final_diff |-> DNum(0)]

\* C1: the (A, u) written for a year is the (A_new, u_new) pair of the
\* iteration of that year with the smallest residual, whenever the year ran
\* at least one iteration
C1_BestPairWritten ==
    (JustStored /\ min_seen # NoMin) => (StoredA = min_seen.A /\ Storedu = min_seen.u)

\* C2: with a T whose size differs from the number of locations no pass of the
\* loop is ever entered, no A/u column is written and no record is filled
C2_ShapeMismatchRejected ==
    (T.M # final_gdf.n) =>
        /\ passes = 0
        /\ NothingWritten
        /\ \A y \in DOMAIN convergence_stats : convergence_stats[y] = InitialStats

\* C3: a year's loop enters its body at most max_iter times; every step taken
\* inside the loop is either one more counted pass that stays in the loop or
\* the step that leaves it for the code that stores the year, and that code
\* then stores the year and moves on to the next one
C3_LoopTerminates ==
    /\ [](passes <= max_iter /\ iter_count <= max_iter /\ pc # "raised")
    /\ [][pc = "while" =>
            \/ pc' = "store" /\ passes' \in {passes, passes + 1}
            \/ pc' = "while" /\ passes' = passes + 1 /\ iter_count' = iter_count + 1]_vars
    /\ [][pc = "store" => (pc' = "for" /\ yi' = yi + 1)]_vars
C3_Witness == pc = "store" /\ passes = max_iter /\ iter_count = max_iter

\* C4: when an iteration of a year produced a NaN residual, the A and u written
\* for the year hold no NaN or infinite entry
C4_NonFiniteNotReturned ==
    (JustStored /\ min_seen.diff = DNaN) =>
        /\ \A i \in 1..Len(StoredA.v) : IsFinite(StoredA.v[i])
        /\ \A i \in 1..Len(Storedu.v) : IsFinite(Storedu.v[i])

\* C5: every entry of every written A and u column is finite and > 0
C5_Positive ==
    \A c \in DOMAIN final_gdf.col :
        (c[1] \in {"A", "u"} /\ final_gdf.col[c] # None) =>
            \A i \in 1..Len(final_gdf.col[c].v) : IsPosFinite(final_gdf.col[c].v[i])

\* C6: every written A and u column has mean exactly 1
C6_MeanOne ==
    \A c \in DOMAIN final_gdf.col :
        (c[1] \in {"A", "u"} /\ final_gdf.col[c] # None) => final_gdf.col[c].mean = One

\* C7 as stated: for phi > 0 a larger distance gives a strictly smaller trade cost
C7_StrictlyDecreasing ==
    (pc = "trade_done" /\ RatLess(Zero, phi)) =>
        \A c1, c2 \in Cells(T.M) :
            RatLess(distance_matrix.e[c1], distance_matrix.e[c2])
                => TLess(T.e[c2], T.e[c1])
\* C7: for phi > 0 a larger distance never gives a smaller trade cost, and gives a
\* strictly larger one whenever phi * distance stays within the clip bound
C7_Increasing ==
    (pc = "trade_done" /\ RatLess(Zero, phi)) =>
        \A c1, c2 \in Cells(T.M) :
            RatLess(distance_matrix.e[c1], distance_matrix.e[c2]) =>
                /\ ~TLess(T.e[c2], T.e[c1])
                /\ ~RatLess(Rat(ExpClip, 1), Mul(distance_matrix.e[c2], phi))
                      => TLess(T.e[c1], T.e[c2])
C7_Witness ==
    /\ pc = "trade_done"
    /\ RatLess(Zero, phi)
    /\ \E c1, c2 \in Cells(T.M) :
          /\ RatLess(distance_matrix.e[c1], distance_matrix.e[c2])
          /\ TLess(T.e[c1], T.e[c2])
    /\ \E c1, c2 \in Cells(T.M) :
          /\ RatLess(distance_matrix.e[c1], distance_matrix.e[c2])
          /\ T.e[c1] = T.e[c2]

\* C8: before normalization every NaN or infinite entry of L and of w has been
\* replaced by the mean of the finite entries of the same input vector, the
\* finite entries being kept
FiniteOnly(x) == IsFinite(x)
FiniteMean(s) ==
    LET kept == SelectSeq(s, FiniteOnly)
    IN IF Len(kept) = 0 THEN NaN ELSE MeanF(kept)
Repaired(raw, s) ==
    \A i \in 1..Len(raw) : s[i] = IF IsFinite(raw[i]) THEN raw[i] ELSE FiniteMean(raw)
C8_NonFiniteRepaired ==
    pc = "normalize" =>
        /\ Repaired(final_gdf.col[Col("Population", years[yi])], L)
        /\ Repaired(final_gdf.col[Col("Wage", years[yi])], w)

\* C9: no year ever leaves invert_model through an exception, every year
\* already passed has its A and u columns written and its record filled, and
\* at the end this is so for every year of the list
C9_YearsIndependent ==
    /\ pc # "raised"
    /\ \A i \in 1..Len(years) :
          (i < yi) => (Written(i) /\ convergence_stats[years[i]] # InitialStats)
    /\ (pc = "done" => yi = Len(years) + 1)
C9_Witness ==
    /\ pc = "done"
    /\ \E i \in 1..Len(years) :
          \/ /\ convergence_stats[years[i]].iterations = max_iter
             /\ DLess(DNum(tol), convergence_stats[years[i]].final_diff)
          \/ ShapeError(T, final_gdf.n)
    /\ \A i \in 1..Len(years) : Written(i)

\* C10: a year that used up max_iter iterations with every residual above tol
\* is stored like any other: iterations = max_iter, final_diff > tol, and A, u
\* are the pair of the iteration with the smallest residual
C10_NonConvergenceRecorded ==
    (JustStored /\ iter_count = max_iter /\ DLess(DNum(tol), min_seen.diff)) =>
        /\ StoredStats.iterations = max_iter
        /\ DLess(DNum(tol), StoredStats.final_diff)
        /\ StoredStats.final_diff = min_seen.diff
        /\ StoredA = min_seen.A
        /\ Storedu = min_seen.u
C10_Witness ==
    /\ JustStored
    /\ iter_count = max_iter
    /\ DLess(DNum(tol), min_seen.diff)
    /\ StoredStats.iterations = max_iter
    /\ StoredA.src[2] < max_iter - 1

\* C11: inside a year's loop best_diff never grows: a step either keeps it
\* or replaces it by a strictly smaller residual, the residual of that step
C11_BestDiffNonIncreasing ==
    [][(pc = "while") =>
          \/ best_diff' = best_diff
          \/ DLess(best_diff', best_diff) /\ best_diff' = diff']_vars
C11_Witness ==
    /\ pc = "while"
    /\ best_diff[1] = "num"
    /\ best_diff[2] < DiffScale - 1
    /\ no_improvement_count > 0
    /\ DLess(best_diff, diff)

\* C12: a pass of the loop sets no_improvement_count to 0 when its residual is
\* strictly below best_diff and adds 1 otherwise (an equal residual included);
\* the pass leaves the loop by early stopping exactly when the counter has
\* become patience + 1, so the counter never gets past that value
C12_EarlyStop ==
    /\ [](no_improvement_count <= patience + 1)
    /\ [](pc = "while" => no_improvement_count <= patience)
    /\ [][(pc = "while" /\ passes' = passes + 1 /\ ~ShapeError(T, final_gdf.n)) =>
             /\ no_improvement_count' =
                   IF DLess(diff', best_diff) THEN 0 ELSE no_improvement_count + 1
             /\ (pc' = "store") <=> (no_improvement_count' = patience + 1)]_vars
C12_Witness ==
    /\ pc = "store"
    /\ no_improvement_count = patience + 1
    /\ diff = best_diff
    /\ iter_count < max_iter

\* C13: with one location, T = [[1]] and a positive finite population and
\* wage, a year is stored after 0 or 1 iteration with A = [1] and u = [1]
SingleLocation ==
    /\ final_gdf.n = 1
    /\ T.M = 1
    /\ T.e[<<1, 1>>] = One
    /\ \A c \in DOMAIN final_gdf.col :
          c[1] \in {"Population", "Wage"} => IsPosFinite(final_gdf.col[c][1])
C13_SingleLocation ==
    (SingleLocation /\ JustStored) =>
        /\ StoredStats.iterations \in {0, 1}
        /\ passes \in {0, 1}
        /\ StoredA.v = <<One>>
        /\ Storedu.v = <<One>>
C13_Witness ==
    /\ SingleLocation
    /\ pc = "done"
    /\ passes = 1
    /\ \A i \in 1..Len(years) :
          /\ convergence_stats[years[i]] = [iterations |-> 1, final_diff |-> DNum(0)]
          /\ final_gdf.col[Col("A", years[i])].v = <<One>>

\* the normalized inputs of a year, computed from that year's columns alone
OwnInputs(year) ==
    LET filled == FillMissing(final_gdf.col[Col("Population", year)],
                              final_gdf.col[Col("Wage", year)])
    IN [L |-> MeanNormalize(filled.L), w |-> MeanNormalize(filled.w)]
AllOnes(x, n) == Len(x.v) = n /\ \A i \in 1..n : x.v[i] = One

\* C14: a year's loop starts from a state fixed by that year's own columns
\* (whatever the position of the year in the list and whatever was processed
\* before it), T never changes, and a step changes no column and no record
\* other than the A/u columns and the record of the year being stored
C14_YearsDoNotInteract ==
    /\ []((pc = "while" /\ passes = 0) =>
            /\ L = OwnInputs(years[yi]).L
            /\ w = OwnInputs(years[yi]).w
            /\ AllOnes(A, final_gdf.n) /\ AllOnes(u, final_gdf.n)
            /\ best_diff = DInf /\ best_A = None /\ best_u = None
            /\ diff = DNum(DiffScale) /\ iter_count = 0 /\ no_improvement_count = 0)
    /\ [][/\ T' = T
          /\ final_gdf'.n = final_gdf.n
          /\ \A c \in DOMAIN final_gdf.col :
                (final_gdf'.col[c] # final_gdf.col[c]) =>
                    (pc = "store" /\ c[1] \in {"A", "u"} /\ c[2] = years[yi])
          /\ \A y \in DOMAIN convergence_stats :
                (convergence_stats'[y] # convergence_stats[y]) =>
                    (pc = "store" /\ y = years[yi])]_vars
C14_Witness ==
    /\ years = <<1980, 1975>>
    /\ pc = "while"
    /\ yi = 2
    /\ passes > 1
    /\ final_gdf.col[Col("A", 1980)] # None
    /\ final_gdf.col[Col("A", 1975)] = None

\* C15: when a year's loop is about to run its first pass, A and u are the
\* all-ones vectors of length N, nothing is recorded as best, and diff and
\* the counters have their initial values, also for a year processed after
\* another one
C15_FreshStart ==
    (pc = "while" /\ passes = 0) =>
        /\ AllOnes(A, final_gdf.n) /\ A.src = <<"ones", 0>>
        /\ AllOnes(u, final_gdf.n) /\ u.src = <<"ones", 0>>
        /\ best_diff = DInf
        /\ best_A = None
        /\ best_u = None
        /\ iter_count = 0
        /\ no_improvement_count = 0
        /\ min_seen = NoMin
C15_Witness ==
    /\ pc = "while"
    /\ passes = 0
    /\ yi = 2
    /\ convergence_stats[years[1]].iterations > 1
    /\ final_gdf.col[Col("A", years[1])] # None
    /\ AllOnes(A, final_gdf.n)

\* C16: no step of invert_model changes T: after every pass and every year
\* it is the matrix that was passed in
C16_TUnchanged == [][T' = T]_vars
C16_Witness ==
    /\ pc = "done"
    /\ passes > 1
    /\ T.M = final_gdf.n
    /\ T = calculate_trade_costs(distance_matrix, phi)
    /\ \E c \in DOMAIN T.e : T.e[c] # Clip(Pow(T.e[c], 1 - sigma, 1))

\* C17: a call of calculate_trade_costs leaves the caller's distance matrix
\* as it was, and a second call on the same inputs returns the same T
C17_TradeCostsPure ==
    [][/\ distance_matrix' = distance_matrix
       /\ phi' = phi
       /\ (pc = "trade_done" => T' = T)]_vars
C17_Witness ==
    /\ pc = "trade_done"
    /\ T = calculate_trade_costs(distance_matrix, phi)
    /\ \E c \in DOMAIN distance_matrix.e :
          Mul(distance_matrix.e[c], phi) # distance_matrix.e[c]

\* C18: the distance matrix has a zero diagonal and, for every phi, the
\* trade-cost matrix computed from it has a unit diagonal
C18_UnitDiagonal ==
    \A i \in 1..distance_matrix.M :
        /\ distance_matrix.e[<<i, i>>] = Zero
        /\ pc = "trade_done" => T.e[<<i, i>>] = One
C18_Witness ==
    /\ pc = "trade_done"
    /\ T.M = NumLoc
    /\ RatLess(phi, Zero)
    /\ \A i \in 1..T.M : T.e[<<i, i>>] = One
    /\ \E c \in DOMAIN T.e : T.e[c] # One

\* C19: in every pass of the loop every entry of the normalized L and of the
\* normalized w is finite and strictly positive
C19_InputsPositive ==
    (pc = "while") =>
        /\ \A i \in 1..Len(L) : IsPosFinite(L[i])
        /\ \A i \in 1..Len(w) : IsPosFinite(w[i])

\* C20: the L and the w used by a year's loop each have mean exactly 1
C20_InputsMeanOne ==
    (pc = "while") => (MeanF(L) = One /\ MeanF(w) = One)

\* C21: for a year that completed at least one iteration, the final_diff of
\* its record is the smallest residual of the year's iterations
C21_FinalDiffIsMinimum ==
    (JustStored /\ min_seen # NoMin) =>
        /\ StoredStats.final_diff = min_seen.diff
        /\ diff = min_seen.diff
C21_Witness ==
    /\ JustStored
    /\ min_seen # NoMin
    /\ no_improvement_count = patience + 1
    /\ StoredStats.final_diff = min_seen.diff
    /\ DLess(min_seen.diff, DNum(DiffScale - 1))

\* the update steps (residual computed, blend applied) completed in the
\* year: every pass that was entered, unless the pass raises
CompletedSteps == IF ShapeError(T, final_gdf.n) THEN 0 ELSE passes

\* C22: the iterations of a year's record is the number of update steps
\* completed in the year's loop
C22_IterationsCountSteps ==
    JustStored => StoredStats.iterations = CompletedSteps

\* lines 144-147: the branch that prints "Maximum iterations reached"
ReportsCap(iterations) == iterations >= max_iter
\* a residual at or below the tolerance
WithinTol(d) == d[1] = "num" /\ d[2] <= tol

\* C23: a year is reported as having hit the iteration cap only if no
\* residual of its loop was at or below tol: a record with final_diff <= tol
\* is reported as converged
C23_CapOnlyIfNotConverged ==
    JustStored => ~(ReportsCap(StoredStats.iterations) /\ WithinTol(StoredStats.final_diff))

\* C24: when the loop is left with a residual at or below tol, that residual
\* is the best one, the best pair is the (A_new, u_new) of that last pass, and
\* the year is stored with this pair and a final_diff <= tol; and the best
\* residual is at or below tol only when the loop was left that way
C24_ToleranceExit ==
    /\ []((pc = "store" /\ WithinTol(diff)) =>
            /\ best_diff = diff
            /\ best_A.src = <<"A_new", iter_count - 1>>
            /\ best_u.src = <<"u_new", iter_count - 1>>)
    /\ []((pc = "store" /\ WithinTol(best_diff)) =>
            /\ WithinTol(diff)
            /\ no_improvement_count = 0
            /\ passes = iter_count)
    /\ [][(pc = "store" /\ WithinTol(diff)) =>
            /\ final_gdf'.col[<<"A", years[yi]>>] = best_A
            /\ final_gdf'.col[<<"u", years[yi]>>] = best_u
            /\ convergence_stats'[years[yi]].final_diff = diff]_vars
C24_Witness ==
    /\ JustStored
    /\ WithinTol(StoredStats.final_diff)
    /\ StoredStats.iterations > 1
    /\ StoredStats.iterations < max_iter
    /\ StoredA.src = <<"A_new", iter_count - 1>>
    /\ Storedu.src = <<"u_new", iter_count - 1>>

RowHasNaN(i) == \E j \in 1..T.M : IsNaN(T.e[<<i, j>>])
FirstPassDone ==
    /\ pc \in {"while", "store"}
    /\ passes = 1
    /\ ~ShapeError(T, final_gdf.n)
MeanOnePositive(x) ==
    /\ x.mean = One
    /\ \A i \in 1..Len(x.v) : IsPosFinite(x.v[i])
InLoop == pc \in {"while", "store"}
\* C26: after every damped blend of a year's loop the working iterates A
\* and u have mean 1 and strictly positive finite entries.
C26_IteratesMeanOnePositive ==
    (InLoop /\ passes > 0) => (MeanOnePositive(A) /\ MeanOnePositive(u))
\* the same for the years whose normalised inputs and T hold no NaN
C26_FiniteInputsKeepMeanOne ==
    (InLoop /\ passes > 0 /\ ~AnyNaN(L) /\ ~AnyNaN(w) /\ ~(\E i \in 1..T.M : RowHasNaN(i))) =>
        (MeanOnePositive(A) /\ MeanOnePositive(u))

\* a <= b for rates <<a, r>> standing for (a / AlphaScale) / sqrt(r)
AlphaLeq(a, b) == a[1] * a[1] * b[2] <= b[1] * b[1] * a[2]
AlphaEq(a, b) == AlphaLeq(a, b) /\ AlphaLeq(b, a)
\* C27: the learning rate of a pass lies between min_alpha and initial_alpha,
\* is initial_alpha in the first pass, is min_alpha in every pass with
\* iter_count >= 99, and the rate of the next pass is never larger.
C27_AlphaSchedule ==
    pc = "while" =>
        LET al == alpha_update(iter_count)
        IN /\ AlphaLeq(<<min_alpha, 1>>, al)
           /\ AlphaLeq(al, <<initial_alpha, 1>>)
           /\ (iter_count = 0 => AlphaEq(al, <<initial_alpha, 1>>))
           /\ (iter_count >= 99 => AlphaEq(al, <<min_alpha, 1>>))
           /\ AlphaLeq(alpha_update(iter_count + 1), al)
C27_Witness ==
    /\ pc = "while"
    /\ iter_count = 100
    /\ passes = iter_count
    /\ ~AlphaLeq(alpha_update(98), <<min_alpha, 1>>)
    /\ AlphaEq(alpha_update(99), <<min_alpha, 1>>)

OwnColumns(year) == {<<"A", year>>, <<"u", year>>}
\* C28: processing a year reads the Population and Wage columns of that year
\* (the vectors the loop works on are those two columns, repaired), leaves T
\* as it is, and changes the table and the statistics only when it stores
\* the year: then the columns A and u of that year get vectors of length N,
\* that year's record is replaced, and every other column and every other
\* year's record stay as they were.
C28_YearFrame ==
    /\ [][(pc = "for" /\ pc' = "normalize") =>
            LET own == FillMissing(final_gdf.col[<<"Population", years[yi]>>],
                                   final_gdf.col[<<"Wage", years[yi]>>])
            IN L' = own.L /\ w' = own.w]_vars
    /\ [][pc # "store" =>
            (final_gdf' = final_gdf /\ convergence_stats' = convergence_stats)]_vars
    /\ [][T' = T /\ years' = years]_vars
    /\ [][pc = "store" =>
            /\ DOMAIN final_gdf'.col = DOMAIN final_gdf.col
            /\ \A c \in DOMAIN final_gdf.col \ OwnColumns(years[yi]) :
                   final_gdf'.col[c] = final_gdf.col[c]
            /\ \A c \in OwnColumns(years[yi]) : Len(final_gdf'.col[c].v) = final_gdf.n
            /\ DOMAIN convergence_stats' = DOMAIN convergence_stats
            /\ \A y \in DOMAIN convergence_stats \ {years[yi]} :
                   convergence_stats'[y] = convergence_stats[y]]_vars
C28_Witness ==
    /\ pc = "for"
    /\ yi = 2
    /\ Len(years) = 2
    /\ final_gdf.col[<<"Population", years[1]>>] # final_gdf.col[<<"Population", years[2]>>]
    /\ Len(final_gdf.col[<<"A", years[1]>>].v) = final_gdf.n
    /\ Len(final_gdf.col[<<"u", years[1]>>].v) = final_gdf.n
    /\ final_gdf.col[<<"A", years[2]>>] = None
    /\ final_gdf.col[<<"u", years[2]>>] = None
    /\ convergence_stats[years[1]].iterations > 0
    /\ convergence_stats[years[2]] = InitialStats

\* the only pass of the year stored last raised
FirstPassRaised == passes = 1 /\ min_seen = NoMin
Placeholder == [iterations |-> 0, final_diff |-> DNum(DiffScale)]
\* C29: a year whose first pass raises is stored with all-ones A and u
\* columns (the initial guess itself) and the record iterations = 0,
\* final_diff = 1; the exception never leaves invert_model, and the step
\* after the raising pass stores the year and moves on to the next one.
C29_FirstPassRaises ==
    /\ []((JustStored /\ FirstPassRaised) =>
            /\ AllOnes(StoredA, final_gdf.n) /\ StoredA.src = <<"ones", 0>>
            /\ AllOnes(Storedu, final_gdf.n) /\ Storedu.src = <<"ones", 0>>
            /\ StoredStats = Placeholder)
    /\ [](pc # "raised")
    /\ [][(pc = "while" /\ passes = 0 /\ ShapeError(T, final_gdf.n)) =>
            (pc' = "store" /\ passes' = 1 /\ best_A' = None /\ best_u' = None)]_vars
    /\ [][(pc = "store" /\ FirstPassRaised) => (pc' = "for" /\ yi' = yi + 1)]_vars
C29_Witness ==
    /\ pc = "done"
    /\ Len(years) = 2
    /\ yi = 3
    /\ FirstPassRaised
    /\ ShapeError(T, final_gdf.n)
    /\ \A i \in 1..2 :
          /\ AllOnes(final_gdf.col[<<"A", years[i]>>], final_gdf.n)
          /\ AllOnes(final_gdf.col[<<"u", years[i]>>], final_gdf.n)
          /\ convergence_stats[years[i]] = Placeholder
====
